---- MODULE Spec2Model ----
(***************************************************************************)
(* Billing core of the hospital management system: the tax calculator      *)
(* (billing/utils/tax-calculator.ts), the bill assembler                   *)
(* (billing/billing.service.ts: generateBill, previewBill,                 *)
(* aggregateUnbilledItems, createBillNumber) and the lab order status      *)
(* update they read (lab/lab.service.ts).                                  *)
(*                                                                         *)
(* Money is held in mills (1/1000 rupee), so that a value with more than   *)
(* two decimals can be told from its rounding; a tax rate is held in       *)
(* percent (18 is the rate 0.18).  Strings that the code formats or parses *)
(* (bill numbers) are sequences of one-character strings.                  *)
(***************************************************************************)
EXTENDS Integers, Sequences, FiniteSets, TLC

\* ------------------------------------------------------------------ bounds
\* shapes of the patient record the aggregation is applied to
MaxRx == 1
MaxItems == 2
MaxLab == 1
\* size of the patient record while requests and status updates interleave
MaxRecordItems == 1
MaxRecordLabs == 1
MaxAmount == 25
MaxQuantity == 2
MaxLines == 2
MaxYear == 2025
\* payment rows on record when a request may still start, entries of the
\* patient state history likewise, and ticks of the reservation clock
MaxPayments == 2
MaxHistory == 4
MaxTime == 1

\* --------------------------------------------------------------- constants
FirstYear == 2024
ConsultationFee == 300000
ServiceRate == 18
MedicineRate == 12
PadWidth == 4
RateDen == 100
Cent == 10

Procs == {"p1", "p2"}
Patients == {"patient-1"}
Visits == {"visit-1", "visit-2"}
VisitRequests == Visits \cup {"invalid-visit"}
LabStatus == {"PENDING", "IN_PROGRESS", "COMPLETED"}

\* visit.patientId of the two visits on record
VisitPatient(v) == "patient-1"

\* medicine master and lab test catalogue (prices in mills)
Medicines ==
  [m \in {"med-1", "med-2"} |->
     IF m = "med-1" THEN [name |-> "Paracetamol", strength |-> "500mg", mrp |-> 100000]
                    ELSE [name |-> "Cough Syrup", strength |-> "100ml", mrp |-> 80000]]
LabTests ==
  [t \in {"test-1", "test-2"} |->
     IF t = "test-1" THEN [name |-> "CBC Test", price |-> 500000]
                     ELSE [name |-> "Urine Routine", price |-> 150000]]

\* medicine.currentStock of every medicine when the model starts
InitialStock == 3

\* ------------------------------------------------------ string conversions
Digits == <<"0", "1", "2", "3", "4", "5", "6", "7", "8", "9">>
IsDigit(c) == \E d \in 1..10 : Digits[d] = c
DigitVal(c) == (CHOOSE d \in 1..10 : Digits[d] = c) - 1
\* parseInt's NaN, which no arithmetic changes
NaN == -1

RECURSIVE NumberToString(_)
NumberToString(n) ==
  IF n = NaN THEN <<"N", "a", "N">>
  ELSE IF n < 10 THEN <<Digits[n + 1]>>
  ELSE NumberToString(n \div 10) \o <<Digits[(n % 10) + 1]>>

RECURSIVE padStart(_, _, _)
padStart(s, width, c) ==
  IF Len(s) >= width THEN s ELSE padStart(<<c>> \o s, width, c)

startsWith(s, prefix) ==
  /\ Len(prefix) <= Len(s)
  /\ SubSeq(s, 1, Len(prefix)) = prefix

RECURSIVE split(_, _)
split(s, sep) ==
  IF \A i \in 1..Len(s) : s[i] # sep THEN <<s>>
  ELSE LET k == CHOOSE i \in 1..Len(s) : s[i] = sep /\ \A j \in 1..(i - 1) : s[j] # sep
       IN  <<SubSeq(s, 1, k - 1)>> \o split(SubSeq(s, k + 1, Len(s)), sep)

RECURSIVE ParseDigits(_, _, _)
ParseDigits(s, i, acc) ==
  IF i > Len(s) \/ ~IsDigit(s[i]) THEN acc
  ELSE ParseDigits(s, i + 1, acc * 10 + DigitVal(s[i]))

parseInt(s) ==
  IF Len(s) = 0 \/ ~IsDigit(s[1]) THEN NaN ELSE ParseDigits(s, 1, 0)

BillPrefix(currentYear) == <<"H", "M", "S", "/">> \o NumberToString(currentYear) \o <<"/">>

\* ----------------------------------------------------------- tax calculator
\* Math.round(value * 100) / 100 of the value num/den mills
roundToTwoDecimals(num, den) == Cent * ((2 * num + Cent * den) \div (2 * Cent * den))

\* (variant) the tax rate is not validated
validateInputs_RateUnchecked(amount, taxRate) ==
  IF amount < 0 THEN "Amount cannot be negative" ELSE "ok"

validateInputs(amount, taxRate) ==
  IF amount < 0 THEN "Amount cannot be negative"
  ELSE IF taxRate < 0 \/ taxRate > RateDen THEN "Tax rate must be between 0 and 1"
  ELSE "ok"

\* (variant) the tax is what the rounded base leaves of the MRP
calculateInclusiveTax_TaxFromRoundedBase(mrp, taxRate) ==
  IF validateInputs(mrp, taxRate) # "ok" THEN [error |-> validateInputs(mrp, taxRate)]
  ELSE IF taxRate = 0
    THEN [baseAmount |-> mrp, taxAmount |-> 0, total |-> mrp,
          isTaxInclusive |-> TRUE, taxRate |-> 0]
    ELSE [baseAmount |-> roundToTwoDecimals(mrp * RateDen, RateDen + taxRate),
          taxAmount |-> roundToTwoDecimals(
                          mrp - roundToTwoDecimals(mrp * RateDen, RateDen + taxRate), 1),
          total |-> mrp, isTaxInclusive |-> TRUE, taxRate |-> taxRate]

\* (variant) the base is the MRP less taxRate times the MRP
calculateInclusiveTax_RateOffTop(mrp, taxRate) ==
  IF validateInputs(mrp, taxRate) # "ok" THEN [error |-> validateInputs(mrp, taxRate)]
  ELSE IF taxRate = 0
    THEN [baseAmount |-> mrp, taxAmount |-> 0, total |-> mrp,
          isTaxInclusive |-> TRUE, taxRate |-> 0]
    ELSE [baseAmount |-> roundToTwoDecimals(mrp * (RateDen - taxRate), RateDen),
          taxAmount |-> roundToTwoDecimals(mrp * taxRate, RateDen),
          total |-> mrp, isTaxInclusive |-> TRUE, taxRate |-> taxRate]

\* (variant) a zero rate takes the general path
calculateInclusiveTax_NoZeroRateCase(mrp, taxRate) ==
  IF validateInputs(mrp, taxRate) # "ok" THEN [error |-> validateInputs(mrp, taxRate)]
  ELSE [baseAmount |-> roundToTwoDecimals(mrp * RateDen, RateDen + taxRate),
        taxAmount |-> roundToTwoDecimals(mrp * taxRate, RateDen + taxRate),
        total |-> mrp, isTaxInclusive |-> TRUE, taxRate |-> taxRate]

calculateInclusiveTax(mrp, taxRate) ==
  IF validateInputs(mrp, taxRate) # "ok" THEN [error |-> validateInputs(mrp, taxRate)]
  ELSE IF taxRate = 0
    THEN [baseAmount |-> mrp, taxAmount |-> 0, total |-> mrp,
          isTaxInclusive |-> TRUE, taxRate |-> 0]
    ELSE [baseAmount |-> roundToTwoDecimals(mrp * RateDen, RateDen + taxRate),
          taxAmount |-> roundToTwoDecimals(mrp * taxRate, RateDen + taxRate),
          total |-> mrp, isTaxInclusive |-> TRUE, taxRate |-> taxRate]

\* (variant) the total is the base plus the rounded tax, rounded again
calculateExclusiveTax_TotalFromRoundedTax(basePrice, taxRate) ==
  IF validateInputs(basePrice, taxRate) # "ok" THEN [error |-> validateInputs(basePrice, taxRate)]
  ELSE [baseAmount |-> basePrice,
        taxAmount |-> roundToTwoDecimals(basePrice * taxRate, RateDen),
        total |-> roundToTwoDecimals(
                    basePrice + roundToTwoDecimals(basePrice * taxRate, RateDen), 1),
        isTaxInclusive |-> FALSE, taxRate |-> taxRate]

calculateExclusiveTax(basePrice, taxRate) ==
  IF validateInputs(basePrice, taxRate) # "ok" THEN [error |-> validateInputs(basePrice, taxRate)]
  ELSE [baseAmount |-> basePrice,
        taxAmount |-> roundToTwoDecimals(basePrice * taxRate, RateDen),
        total |-> roundToTwoDecimals(basePrice * (RateDen + taxRate), RateDen),
        isTaxInclusive |-> FALSE, taxRate |-> taxRate]

IsError(r) == "error" \in DOMAIN r

\* (variant) the total of an inclusive line is built from its base and tax
TaxLine_InclusiveTotalFromParts(item) ==
  LET amount == item.quantity * item.unitPrice
      taxCalc == IF item.isTaxInclusive
                   THEN calculateInclusiveTax(item.unitPrice, item.taxRate)
                   ELSE calculateExclusiveTax(item.unitPrice, item.taxRate)
  IN  IF IsError(taxCalc) THEN taxCalc
      ELSE LET baseAmount == taxCalc.baseAmount * item.quantity
               taxAmount == taxCalc.taxAmount * item.quantity
               lineTotal == baseAmount + taxAmount
           IN  [rawBase |-> baseAmount, rawTax |-> taxAmount, rawTotal |-> lineTotal,
                line |-> [description |-> item.description, quantity |-> item.quantity,
                          unitPrice |-> item.unitPrice, taxRate |-> item.taxRate,
                          isTaxInclusive |-> item.isTaxInclusive,
                          amount |-> amount,
                          baseAmount |-> roundToTwoDecimals(baseAmount, 1),
                          taxAmount |-> roundToTwoDecimals(taxAmount, 1),
                          lineTotal |-> roundToTwoDecimals(lineTotal, 1)]]

\* one pass of the loop body of generateTaxBreakdown: the unrounded line
\* values that are accumulated and the rounded ones that are pushed
TaxLine(item) ==
  LET amount == item.quantity * item.unitPrice
      taxCalc == IF item.isTaxInclusive
                   THEN calculateInclusiveTax(item.unitPrice, item.taxRate)
                   ELSE calculateExclusiveTax(item.unitPrice, item.taxRate)
  IN  IF IsError(taxCalc) THEN taxCalc
      ELSE LET baseAmount == taxCalc.baseAmount * item.quantity
               taxAmount == taxCalc.taxAmount * item.quantity
               lineTotal == IF item.isTaxInclusive THEN amount ELSE baseAmount + taxAmount
           IN  [rawBase |-> baseAmount, rawTax |-> taxAmount, rawTotal |-> lineTotal,
                line |-> [description |-> item.description, quantity |-> item.quantity,
                          unitPrice |-> item.unitPrice, taxRate |-> item.taxRate,
                          isTaxInclusive |-> item.isTaxInclusive,
                          amount |-> amount,
                          baseAmount |-> roundToTwoDecimals(baseAmount, 1),
                          taxAmount |-> roundToTwoDecimals(taxAmount, 1),
                          lineTotal |-> roundToTwoDecimals(lineTotal, 1)]]

RECURSIVE SumField(_, _, _)
SumField(lines, field, i) ==
  IF i > Len(lines) THEN 0 ELSE lines[i][field] + SumField(lines, field, i + 1)

\* (variant) the lines are collected in reverse
generateTaxBreakdown_Reversed(items) ==
  LET lines == [i \in 1..Len(items) |-> TaxLine(items[i])]
  IN  IF \E i \in 1..Len(items) : IsError(lines[i])
        THEN lines[CHOOSE i \in 1..Len(items) :
                     IsError(lines[i]) /\ \A j \in 1..(i - 1) : ~IsError(lines[j])]
        ELSE [items |-> [i \in 1..Len(items) |-> lines[Len(items) + 1 - i].line],
              subtotal |-> roundToTwoDecimals(SumField(lines, "rawBase", 1), 1),
              totalTax |-> roundToTwoDecimals(SumField(lines, "rawTax", 1), 1),
              grandTotal |-> roundToTwoDecimals(SumField(lines, "rawTotal", 1), 1)]

generateTaxBreakdown(items) ==
  LET lines == [i \in 1..Len(items) |-> TaxLine(items[i])]
  IN  IF \E i \in 1..Len(items) : IsError(lines[i])
        THEN lines[CHOOSE i \in 1..Len(items) :
                     IsError(lines[i]) /\ \A j \in 1..(i - 1) : ~IsError(lines[j])]
        ELSE [items |-> [i \in 1..Len(items) |-> lines[i].line],
              subtotal |-> roundToTwoDecimals(SumField(lines, "rawBase", 1), 1),
              totalTax |-> roundToTwoDecimals(SumField(lines, "rawTax", 1), 1),
              grandTotal |-> roundToTwoDecimals(SumField(lines, "rawTotal", 1), 1)]

\* (variant) the half is cut off below the cent instead of rounded
splitGST_HalfTruncated(taxAmount, isInterState) ==
  IF isInterState
    THEN [cgst |-> 0, sgst |-> 0, igst |-> taxAmount]
    ELSE [cgst |-> Cent * (taxAmount \div (2 * Cent)),
          sgst |-> Cent * (taxAmount \div (2 * Cent)), igst |-> 0]

splitGST(taxAmount, isInterState) ==
  IF isInterState
    THEN [cgst |-> 0, sgst |-> 0, igst |-> taxAmount]
    ELSE [cgst |-> roundToTwoDecimals(taxAmount, 2),
          sgst |-> roundToTwoDecimals(taxAmount, 2), igst |-> 0]

\* ------------------------------------------------------------------- state
VARIABLES
  year,           \* calendar year read by new Date().getFullYear()
  clock,          \* the store's clock: generatedAt and id of the next bill
  prescriptions,  \* patient -> sequence of prescriptions with their items
  labOrders,      \* patient -> sequence of lab orders
  billing,        \* the billing table: set of bills with their items
  payment,        \* the payment table: set of payment records
  patientRecord,  \* the patient table: id -> stage and status of the row
  patientStateHistory, \* the audit trail: sequence of stage changes
  currentStock,   \* the medicine table: id -> currentStock of the row
  reservations,   \* StockReservationService.reservations: billingId -> items
  dateNow,        \* Date.now() of the reservation service, in ticks
  pc,             \* process -> position in the running call
  op,             \* process -> locals of the running call
  result          \* process -> outcome of the last finished call

workflowVars == <<patientRecord, patientStateHistory>>
stockVars == <<currentStock, reservations, dateNow>>
billingVars == <<year, clock, prescriptions, labOrders, billing>>
vars == <<year, clock, prescriptions, labOrders, billing, payment, patientRecord,
          patientStateHistory, currentStock, reservations, dateNow, pc, op, result>>

NoOp == [visitId |-> "none", items |-> <<>>, breakdown |-> [none |-> TRUE],
         billNumber |-> <<>>]
NoResult == [call |-> "none", visitId |-> "none", kind |-> "none"]

\* ------------------------------------------------------------ bill assembly
\* prisma.visit.findUnique({ where: { id } }): null for an unknown id
FindVisit(visitId) == IF visitId \in Visits THEN [id |-> visitId, patientId |-> VisitPatient(visitId)]
                      ELSE [id |-> "null"]

\* the include of aggregateUnbilledItems: every prescription of the patient
\* with its dispensed items only, and the patient's COMPLETED lab orders only
IncludePrescriptions(rxs) ==
  [i \in 1..Len(rxs) |->
     [id |-> rxs[i].id, items |-> SelectSeq(rxs[i].items, LAMBDA it : it.dispensed)]]
IncludeLabOrders(orders) == SelectSeq(orders, LAMBDA o : o.status = "COMPLETED")

ConsultationItems(rxs, orders) ==
  LET hasPrescriptions == Len(rxs) > 0
      hasLabOrders == Len(orders) > 0
  IN  IF hasPrescriptions \/ hasLabOrders
        THEN <<[itemType |-> "CONSULTATION", itemId |-> <<"undefined">>,
                description |-> "Doctor Consultation Fee", quantity |-> 1,
                unitPrice |-> ConsultationFee, isTaxInclusive |-> FALSE,
                taxRate |-> ServiceRate]>>
        ELSE <<>>

\* (variant) every medicine line is billed for one unit
RECURSIVE PrescriptionItemLines_UnitQuantity(_, _)
PrescriptionItemLines_UnitQuantity(items, j) ==
  IF j > Len(items) THEN <<>>
  ELSE (IF items[j].dispensed
          THEN <<[itemType |-> "MEDICINE", itemId |-> items[j].id,
                  description |-> Medicines[items[j].medicineId].name \o " "
                                    \o Medicines[items[j].medicineId].strength,
                  quantity |-> 1,
                  unitPrice |-> Medicines[items[j].medicineId].mrp,
                  isTaxInclusive |-> TRUE, taxRate |-> MedicineRate]>>
          ELSE <<>>) \o PrescriptionItemLines_UnitQuantity(items, j + 1)

RECURSIVE PrescriptionItemLines(_, _)
PrescriptionItemLines(items, j) ==
  IF j > Len(items) THEN <<>>
  ELSE (IF items[j].dispensed
          THEN <<[itemType |-> "MEDICINE", itemId |-> items[j].id,
                  description |-> Medicines[items[j].medicineId].name \o " "
                                    \o Medicines[items[j].medicineId].strength,
                  quantity |-> items[j].quantity,
                  unitPrice |-> Medicines[items[j].medicineId].mrp,
                  isTaxInclusive |-> TRUE, taxRate |-> MedicineRate]>>
          ELSE <<>>) \o PrescriptionItemLines(items, j + 1)

RECURSIVE MedicineItems(_, _)
MedicineItems(rxs, i) ==
  IF i > Len(rxs) THEN <<>>
  ELSE PrescriptionItemLines(rxs[i].items, 1) \o MedicineItems(rxs, i + 1)

RECURSIVE LabTestItems(_, _)
LabTestItems(orders, i) ==
  IF i > Len(orders) THEN <<>>
  ELSE (IF orders[i].status = "COMPLETED"
          THEN <<[itemType |-> "LAB_TEST", itemId |-> orders[i].id,
                  description |-> LabTests[orders[i].testId].name, quantity |-> 1,
                  unitPrice |-> LabTests[orders[i].testId].price,
                  isTaxInclusive |-> FALSE, taxRate |-> ServiceRate]>>
          ELSE <<>>) \o LabTestItems(orders, i + 1)

\* aggregateUnbilledItems on the visit's patient data (the visit exists)
aggregateUnbilledItems(rxsOfPatient, ordersOfPatient) ==
  LET rxs == IncludePrescriptions(rxsOfPatient)
      orders == IncludeLabOrders(ordersOfPatient)
  IN  ConsultationItems(rxs, orders) \o MedicineItems(rxs, 1) \o LabTestItems(orders, 1)

\* the BillItemInput projection handed to generateTaxBreakdown
BillItemInputs(unbilledItems) ==
  [i \in 1..Len(unbilledItems) |->
     [description |-> unbilledItems[i].description, quantity |-> unbilledItems[i].quantity,
      unitPrice |-> unbilledItems[i].unitPrice, taxRate |-> unbilledItems[i].taxRate,
      isTaxInclusive |-> unbilledItems[i].isTaxInclusive]]

\* (variant) orderBy generatedAt 'asc'
LatestBills_Oldest(bills, prefix) ==
  {b \in bills : /\ startsWith(b.billNumber, prefix)
                 /\ \A c \in bills : startsWith(c.billNumber, prefix)
                                       => c.generatedAt >= b.generatedAt}

\* prisma.billing.findFirst({ where: { billNumber: { startsWith: prefix } },
\*                            orderBy: { generatedAt: 'desc' } })
LatestBills(bills, prefix) ==
  {b \in bills : /\ startsWith(b.billNumber, prefix)
                 /\ \A c \in bills : startsWith(c.billNumber, prefix)
                                       => c.generatedAt <= b.generatedAt}

\* (variant) the number is not padded
NextBillNumber_Unpadded(prefix, found) ==
  LET lastNumber == parseInt(split(found.billNumber, "/")[3])
      nextNumber == IF found = [none |-> TRUE] THEN 1
                    ELSE IF lastNumber = NaN THEN NaN ELSE lastNumber + 1
  IN  prefix \o NumberToString(nextNumber)

\* createBillNumber given the row that findFirst returned (or none)
NextBillNumber(prefix, found) ==
  LET lastNumber == parseInt(split(found.billNumber, "/")[3])
      nextNumber == IF found = [none |-> TRUE] THEN 1
                    ELSE IF lastNumber = NaN THEN NaN ELSE lastNumber + 1
  IN  prefix \o padStart(NumberToString(nextNumber), PadWidth, "0")

\* unique keys of the billing table
BillNumberUnique_Absent(bills, billNumber) == TRUE
BillNumberUnique(bills, billNumber) == \A b \in bills : b.billNumber # billNumber
VisitIdUnique_Absent(bills, visitId) == TRUE
VisitIdUnique(bills, visitId) == \A b \in bills : b.visitId # visitId

\* (variant) every line is tagged with the first aggregated item
NewBill_TaggedByFirstItem(visitId, billNumber, breakdown, unbilledItems, now) ==
  [id |-> now, visitId |-> visitId, billNumber |-> billNumber,
   subtotal |-> breakdown.subtotal, taxAmount |-> breakdown.totalTax,
   discount |-> 0, total |-> breakdown.grandTotal, balance |-> breakdown.grandTotal,
   status |-> "PENDING", generatedAt |-> now,
   items |-> [i \in 1..Len(breakdown.items) |->
                [itemType |-> unbilledItems[1].itemType,
                 itemId |-> unbilledItems[1].itemId,
                 description |-> breakdown.items[i].description,
                 quantity |-> breakdown.items[i].quantity,
                 unitPrice |-> breakdown.items[i].unitPrice,
                 amount |-> breakdown.items[i].amount,
                 isTaxInclusive |-> breakdown.items[i].isTaxInclusive,
                 taxRate |-> breakdown.items[i].taxRate,
                 taxAmount |-> breakdown.items[i].taxAmount,
                 total |-> breakdown.items[i].lineTotal]]]

\* (variant) the total is taken from the subtotal
NewBill_TotalIsSubtotal(visitId, billNumber, breakdown, unbilledItems, now) ==
  [id |-> now, visitId |-> visitId, billNumber |-> billNumber,
   subtotal |-> breakdown.subtotal, taxAmount |-> breakdown.totalTax,
   discount |-> 0, total |-> breakdown.subtotal, balance |-> breakdown.subtotal,
   status |-> "PENDING", generatedAt |-> now,
   items |-> [i \in 1..Len(breakdown.items) |->
                [itemType |-> unbilledItems[i].itemType,
                 itemId |-> unbilledItems[i].itemId,
                 description |-> breakdown.items[i].description,
                 quantity |-> breakdown.items[i].quantity,
                 unitPrice |-> breakdown.items[i].unitPrice,
                 amount |-> breakdown.items[i].amount,
                 isTaxInclusive |-> breakdown.items[i].isTaxInclusive,
                 taxRate |-> breakdown.items[i].taxRate,
                 taxAmount |-> breakdown.items[i].taxAmount,
                 total |-> breakdown.items[i].lineTotal]]]

\* the row that prisma.billing.create writes
NewBill(visitId, billNumber, breakdown, unbilledItems, now) ==
  [id |-> now, visitId |-> visitId, billNumber |-> billNumber,
   subtotal |-> breakdown.subtotal, taxAmount |-> breakdown.totalTax,
   discount |-> 0, total |-> breakdown.grandTotal, balance |-> breakdown.grandTotal,
   status |-> "PENDING", generatedAt |-> now,
   items |-> [i \in 1..Len(breakdown.items) |->
                [itemType |-> unbilledItems[i].itemType,
                 itemId |-> unbilledItems[i].itemId,
                 description |-> breakdown.items[i].description,
                 quantity |-> breakdown.items[i].quantity,
                 unitPrice |-> breakdown.items[i].unitPrice,
                 amount |-> breakdown.items[i].amount,
                 isTaxInclusive |-> breakdown.items[i].isTaxInclusive,
                 taxRate |-> breakdown.items[i].taxRate,
                 taxAmount |-> breakdown.items[i].taxAmount,
                 total |-> breakdown.items[i].lineTotal]]]

\* ------------------------------------------------------------ initial state
SeqsUpTo(S, n) == UNION {[1..k -> S] : k \in 0..n}

\* what the j-th item of a prescription prescribes, and the i-th test ordered
ItemKind(j) == IF j % 2 = 1 THEN [medicineId |-> "med-1", quantity |-> 15]
                            ELSE [medicineId |-> "med-2", quantity |-> 2]
TestOrdered(i) == IF i % 2 = 1 THEN "test-1" ELSE "test-2"

\* prescriptions of a patient: ids by position, each item dispensed or not
PrescriptionLists(maxRx, maxItems) ==
  {[i \in 1..Len(shape) |->
      [id |-> <<"rx", i>>,
       items |-> [j \in 1..Len(shape[i]) |->
                    [id |-> <<"rx-item", i, j>>,
                     medicineId |-> ItemKind(j).medicineId,
                     quantity |-> ItemKind(j).quantity,
                     dispensed |-> shape[i][j]]]]] :
     shape \in SeqsUpTo(SeqsUpTo(BOOLEAN, maxItems), maxRx)}

\* lab orders of a patient, each in one of the given statuses
LabOrderLists(maxLab, statuses) ==
  {[i \in 1..Len(sts) |-> [id |-> <<"lab", i>>, testId |-> TestOrdered(i), status |-> sts[i]]] :
     sts \in SeqsUpTo(statuses, maxLab)}

\* the latest bill of an earlier visit that is already on record when the
\* model starts (the bills before it are not read by any operation modelled)
PriorItems == <<[itemType |-> "CONSULTATION", itemId |-> <<"undefined">>,
                 description |-> "Doctor Consultation Fee", quantity |-> 1,
                 unitPrice |-> ConsultationFee, isTaxInclusive |-> FALSE,
                 taxRate |-> ServiceRate]>>
PriorBill(y, seq) ==
  NewBill("visit-0", BillPrefix(y) \o padStart(NumberToString(seq), PadWidth, "0"),
          generateTaxBreakdown(BillItemInputs(PriorItems)), PriorItems, 0)
PriorStores(seqs) == {IF n = 0 THEN {} ELSE {PriorBill(FirstYear, n)} : n \in seqs}

InitWith(rxLists, labLists, stores) ==
  /\ year = FirstYear
  /\ clock = 1
  /\ prescriptions \in [Patients -> rxLists]
  /\ labOrders \in [Patients -> labLists]
  /\ billing \in stores
  /\ payment = {}
  /\ patientRecord = [id \in Patients |-> [stage |-> "REGISTERED", status |-> "IN_PROGRESS"]]
  /\ patientStateHistory = <<>>
  /\ currentStock = [id \in DOMAIN Medicines |-> InitialStock]
  /\ reservations = <<>>
  /\ dateNow = 0
  /\ pc = [p \in Procs |-> "idle"]
  /\ op = [p \in Procs |-> NoOp]
  /\ result = [p \in Procs |-> NoResult]

\* ----------------------------------------------------------------- actions
Respond(p, r) ==
  /\ pc' = [pc EXCEPT ![p] = "idle"]
  /\ op' = [op EXCEPT ![p] = NoOp]
  /\ result' = [result EXCEPT ![p] = r]

Goto(p, label, locals) ==
  /\ pc' = [pc EXCEPT ![p] = label]
  /\ op' = [op EXCEPT ![p] = locals]
  /\ result' = [result EXCEPT ![p] = NoResult]

\* generateBill, step 1: look the visit up
GenerateBill_FindVisit(p, visitId) ==
  /\ pc[p] = "idle"
  /\ IF FindVisit(visitId).id = "null"
       THEN Respond(p, [call |-> "generateBill", visitId |-> visitId, kind |-> "NotFound"])
       ELSE Goto(p, "checkExisting", [NoOp EXCEPT !.visitId = visitId])
  /\ UNCHANGED <<billingVars, payment, workflowVars, stockVars>>

\* (variant) the existence check is left out
GenerateBill_CheckExisting_Skipped(p) ==
  /\ pc[p] = "checkExisting"
  /\ Goto(p, "aggregate", op[p])
  /\ UNCHANGED <<billingVars, payment, workflowVars, stockVars>>

\* generateBill, step 2: a bill of this visit already on record?
GenerateBill_CheckExisting(p) ==
  /\ pc[p] = "checkExisting"
  /\ LET existing == {b \in billing : b.visitId = op[p].visitId}
     IN  IF existing # {}
           THEN \E existingBill \in existing :
                  Respond(p, [call |-> "generateBill", visitId |-> op[p].visitId,
                              kind |-> "AlreadyExists",
                              billNumber |-> existingBill.billNumber])
           ELSE Goto(p, "aggregate", op[p])
  /\ UNCHANGED <<billingVars, payment, workflowVars, stockVars>>

\* (variant) an empty aggregation is billed like any other
GenerateBill_Aggregate_EmptyBilled(p) ==
  /\ pc[p] = "aggregate"
  /\ LET visit == FindVisit(op[p].visitId)
         unbilledItems == aggregateUnbilledItems(prescriptions[visit.patientId],
                                                 labOrders[visit.patientId])
         breakdown == generateTaxBreakdown(BillItemInputs(unbilledItems))
         me == [call |-> "generateBill", visitId |-> op[p].visitId]
     IN  IF visit.id = "null" THEN Respond(p, me @@ [kind |-> "NotFound"])
         ELSE IF IsError(breakdown)
           THEN Respond(p, me @@ [kind |-> "InvalidInput", message |-> breakdown.error])
         ELSE Goto(p, "createBillNumber",
                   [op[p] EXCEPT !.items = unbilledItems, !.breakdown = breakdown])
  /\ UNCHANGED <<billingVars, payment, workflowVars, stockVars>>

\* generateBill, steps 3 and 4: aggregate the unbilled items, compute the totals
GenerateBill_Aggregate(p) ==
  /\ pc[p] = "aggregate"
  /\ LET visit == FindVisit(op[p].visitId)
         unbilledItems == aggregateUnbilledItems(prescriptions[visit.patientId],
                                                 labOrders[visit.patientId])
         breakdown == generateTaxBreakdown(BillItemInputs(unbilledItems))
         me == [call |-> "generateBill", visitId |-> op[p].visitId]
     IN  IF visit.id = "null" THEN Respond(p, me @@ [kind |-> "NotFound"])
         ELSE IF Len(unbilledItems) = 0 THEN Respond(p, me @@ [kind |-> "NothingToBill"])
         ELSE IF IsError(breakdown)
           THEN Respond(p, me @@ [kind |-> "InvalidInput", message |-> breakdown.error])
         ELSE Goto(p, "createBillNumber",
                   [op[p] EXCEPT !.items = unbilledItems, !.breakdown = breakdown])
  /\ UNCHANGED <<billingVars, payment, workflowVars, stockVars>>

\* generateBill, step 5: createBillNumber reads the latest bill of the year
GenerateBill_CreateBillNumber(p) ==
  /\ pc[p] = "createBillNumber"
  /\ LET prefix == BillPrefix(year)
         latest == LatestBills(billing, prefix)
     IN  IF latest = {}
           THEN Goto(p, "create", [op[p] EXCEPT !.billNumber = NextBillNumber(prefix, [none |-> TRUE])])
           ELSE \E latestBill \in latest :
                  Goto(p, "create", [op[p] EXCEPT !.billNumber = NextBillNumber(prefix, latestBill)])
  /\ UNCHANGED <<billingVars, payment, workflowVars, stockVars>>

\* generateBill, steps 6 and 7: insert the bill with its items, or fail on a
\* unique key of the billing table
GenerateBill_Create(p) ==
  /\ pc[p] = "create"
  /\ LET bill == NewBill(op[p].visitId, op[p].billNumber, op[p].breakdown, op[p].items, clock)
         me == [call |-> "generateBill", visitId |-> op[p].visitId]
     IN  IF BillNumberUnique(billing, bill.billNumber) /\ VisitIdUnique(billing, bill.visitId)
           THEN /\ billing' = billing \cup {bill}
                /\ clock' = clock + 1
                /\ Respond(p, me @@ [kind |-> "Bill", bill |-> bill])
           ELSE /\ UNCHANGED <<billing, clock>>
                /\ Respond(p, me @@ [kind |-> "UniqueConstraintFailed",
                                     billNumber |-> bill.billNumber])
  /\ UNCHANGED <<year, prescriptions, labOrders, payment, workflowVars, stockVars>>

\* (variant) the preview goes through the insert of generateBill
PreviewBill_Persisting(p, visitId) ==
  /\ pc[p] = "idle"
  /\ LET visit == FindVisit(visitId)
         unbilledItems == aggregateUnbilledItems(prescriptions[visit.patientId],
                                                 labOrders[visit.patientId])
         breakdown == generateTaxBreakdown(BillItemInputs(unbilledItems))
         me == [call |-> "previewBill", visitId |-> visitId]
     IN  IF visit.id = "null"
           THEN Respond(p, me @@ [kind |-> "NotFound"]) /\ UNCHANGED billing
         ELSE IF Len(unbilledItems) = 0
           THEN /\ Respond(p, me @@ [kind |-> "Preview", items |-> <<>>, subtotal |-> 0,
                                     taxAmount |-> 0, total |-> 0])
                /\ UNCHANGED billing
         ELSE IF IsError(breakdown)
           THEN /\ Respond(p, me @@ [kind |-> "InvalidInput", message |-> breakdown.error])
                /\ UNCHANGED billing
         ELSE /\ Respond(p, me @@ [kind |-> "Preview", items |-> unbilledItems,
                                   subtotal |-> breakdown.subtotal,
                                   taxAmount |-> breakdown.totalTax,
                                   total |-> breakdown.grandTotal])
              /\ billing' = billing \cup
                   {NewBill(visitId, NextBillNumber(BillPrefix(year), [none |-> TRUE]),
                            breakdown, unbilledItems, clock)}
  /\ UNCHANGED <<year, clock, prescriptions, labOrders, payment, workflowVars, stockVars>>

\* (variant) the preview reports the subtotal as the total
PreviewBill_SubtotalAsTotal(p, visitId) ==
  /\ pc[p] = "idle"
  /\ LET visit == FindVisit(visitId)
         unbilledItems == aggregateUnbilledItems(prescriptions[visit.patientId],
                                                 labOrders[visit.patientId])
         breakdown == generateTaxBreakdown(BillItemInputs(unbilledItems))
         me == [call |-> "previewBill", visitId |-> visitId]
     IN  IF visit.id = "null" THEN Respond(p, me @@ [kind |-> "NotFound"])
         ELSE IF Len(unbilledItems) = 0
           THEN Respond(p, me @@ [kind |-> "Preview", items |-> <<>>, subtotal |-> 0,
                                  taxAmount |-> 0, total |-> 0])
         ELSE IF IsError(breakdown)
           THEN Respond(p, me @@ [kind |-> "InvalidInput", message |-> breakdown.error])
         ELSE Respond(p, me @@ [kind |-> "Preview", items |-> unbilledItems,
                                subtotal |-> breakdown.subtotal,
                                taxAmount |-> breakdown.totalTax,
                                total |-> breakdown.subtotal])
  /\ UNCHANGED <<billingVars, payment, workflowVars, stockVars>>

\* (variant) a missing visit previews as an empty one
PreviewBill_MissingAsEmpty(p, visitId) ==
  /\ pc[p] = "idle"
  /\ LET visit == FindVisit(visitId)
         unbilledItems == IF visit.id = "null" THEN <<>>
                          ELSE aggregateUnbilledItems(prescriptions[visit.patientId],
                                                      labOrders[visit.patientId])
         breakdown == generateTaxBreakdown(BillItemInputs(unbilledItems))
         me == [call |-> "previewBill", visitId |-> visitId]
     IN  IF Len(unbilledItems) = 0
           THEN Respond(p, me @@ [kind |-> "Preview", items |-> <<>>, subtotal |-> 0,
                                  taxAmount |-> 0, total |-> 0])
         ELSE IF IsError(breakdown)
           THEN Respond(p, me @@ [kind |-> "InvalidInput", message |-> breakdown.error])
         ELSE Respond(p, me @@ [kind |-> "Preview", items |-> unbilledItems,
                                subtotal |-> breakdown.subtotal,
                                taxAmount |-> breakdown.totalTax,
                                total |-> breakdown.grandTotal])
  /\ UNCHANGED <<billingVars, payment, workflowVars, stockVars>>

\* previewBill: the aggregation and the totals, nothing written
PreviewBill(p, visitId) ==
  /\ pc[p] = "idle"
  /\ LET visit == FindVisit(visitId)
         unbilledItems == aggregateUnbilledItems(prescriptions[visit.patientId],
                                                 labOrders[visit.patientId])
         breakdown == generateTaxBreakdown(BillItemInputs(unbilledItems))
         me == [call |-> "previewBill", visitId |-> visitId]
     IN  IF visit.id = "null" THEN Respond(p, me @@ [kind |-> "NotFound"])
         ELSE IF Len(unbilledItems) = 0
           THEN Respond(p, me @@ [kind |-> "Preview", items |-> <<>>, subtotal |-> 0,
                                  taxAmount |-> 0, total |-> 0])
         ELSE IF IsError(breakdown)
           THEN Respond(p, me @@ [kind |-> "InvalidInput", message |-> breakdown.error])
         ELSE Respond(p, me @@ [kind |-> "Preview", items |-> unbilledItems,
                                subtotal |-> breakdown.subtotal,
                                taxAmount |-> breakdown.totalTax,
                                total |-> breakdown.grandTotal])
  /\ UNCHANGED <<billingVars, payment, workflowVars, stockVars>>

\* LabService.updateLabOrder with a status in the dto
UpdateLabOrder(patient, i, status) ==
  /\ i \in 1..Len(labOrders[patient])
  /\ labOrders' = [labOrders EXCEPT ![patient][i].status = status]
  /\ UNCHANGED <<year, clock, prescriptions, billing, payment, workflowVars, stockVars, pc, op, result>>

\* the calendar year changes
NewYear ==
  /\ year < MaxYear
  /\ year' = year + 1
  /\ UNCHANGED <<clock, prescriptions, labOrders, billing, payment, workflowVars, stockVars, pc, op, result>>

\* a direct call of TaxCalculator.calculateInclusiveTax
CalculateInclusiveTax(p, mrp, taxRate) ==
  /\ pc[p] = "idle"
  /\ LET value == calculateInclusiveTax(mrp, taxRate)
     IN  Respond(p, [call |-> "calculateInclusiveTax", visitId |-> "none",
                     kind |-> IF IsError(value) THEN "Error" ELSE "TaxBreakdown",
                     amount |-> mrp, rate |-> taxRate, value |-> value])
  /\ UNCHANGED <<billingVars, payment, workflowVars, stockVars>>

\* a direct call of TaxCalculator.calculateExclusiveTax
CalculateExclusiveTax(p, basePrice, taxRate) ==
  /\ pc[p] = "idle"
  /\ LET value == calculateExclusiveTax(basePrice, taxRate)
     IN  Respond(p, [call |-> "calculateExclusiveTax", visitId |-> "none",
                     kind |-> IF IsError(value) THEN "Error" ELSE "TaxBreakdown",
                     amount |-> basePrice, rate |-> taxRate, value |-> value])
  /\ UNCHANGED <<billingVars, payment, workflowVars, stockVars>>

\* a direct call of TaxCalculator.generateTaxBreakdown
GenerateTaxBreakdown(p, items) ==
  /\ pc[p] = "idle"
  /\ LET value == generateTaxBreakdown(items)
     IN  Respond(p, [call |-> "generateTaxBreakdown", visitId |-> "none",
                     kind |-> IF IsError(value) THEN "Error" ELSE "CompleteTaxBreakdown",
                     items |-> items, value |-> value])
  /\ UNCHANGED <<billingVars, payment, workflowVars, stockVars>>

\* a direct call of TaxCalculator.splitGST
SplitGST(p, taxAmount, isInterState) ==
  /\ pc[p] = "idle"
  /\ Respond(p, [call |-> "splitGST", visitId |-> "none", kind |-> "GSTSplit",
                 amount |-> taxAmount, isInterState |-> isInterState,
                 value |-> splitGST(taxAmount, isInterState)])
  /\ UNCHANGED <<billingVars, payment, workflowVars, stockVars>>

\* ----------------------------------------------------------------- payments
\* prisma.billing.findUnique({ where: { id } }): the empty set stands for null
FindBilling(billingId) == {b \in billing : b.id = billingId}

\* the status written with a new balance (recordPayment step 7 and the webhook)
BillStatusFor(newBalance, total) ==
  IF newBalance = 0 THEN "PAID"
  ELSE IF newBalance < total THEN "PARTIAL" ELSE "PENDING"

\* prisma.billing.update({ where: { id }, data: { balance, status } })
UpdateBalance(bills, billingId, newBalance, newStatus) ==
  {IF b.id = billingId THEN [b EXCEPT !.balance = newBalance, !.status = newStatus]
                       ELSE b : b \in bills}

\* the row prisma.payment.create inserts; the row id is the table's next one
NewPayment(payments, billingId, amount, mode, razorpayPaymentId, status) ==
  [id |-> Cardinality(payments) + 1, billingId |-> billingId, amount |-> amount,
   mode |-> mode, razorpayPaymentId |-> razorpayPaymentId, status |-> status]

\* prisma.payment.findFirst({ where: { razorpayPaymentId } })
FindPaymentByRazorpayId(payments, paymentId) ==
  {pm \in payments : pm.razorpayPaymentId = paymentId}

\* paise of the payment entity to the amount stored (amount / 100), in mills
PaiseToAmount(paise) == paise * 10

\* recordPayment steps 1 to 4: read the bill, validate the amount against the
\* balance just read; a CASH payment has no mode-specific fields to validate
RecordPayment_FindBill(p, dto) ==
  /\ pc[p] = "idle"
  /\ Cardinality(payment) < MaxPayments
  /\ LET found == FindBilling(dto.billingId)
         me == [call |-> "recordPayment", visitId |-> "none"]
     IN  IF found = {}
           THEN Respond(p, me @@ [kind |-> "NotFound"])
           ELSE LET bill == CHOOSE b \in found : TRUE
                IN  IF dto.amount <= 0
                      THEN Respond(p, me @@ [kind |-> "BadRequest",
                                             message |-> "Payment amount must be greater than 0"])
                      ELSE IF dto.amount > bill.balance
                        THEN Respond(p, me @@ [kind |-> "BadRequest",
                                               message |-> "exceeds outstanding balance"])
                        ELSE Goto(p, "recordPayment_create",
                                  [billingId |-> dto.billingId, amount |-> dto.amount,
                                   currentBalance |-> bill.balance, total |-> bill.total])
  /\ UNCHANGED <<billingVars, payment, workflowVars, stockVars>>

\* recordPayment step 5: the payment row, status SUCCESS
RecordPayment_Create(p) ==
  /\ pc[p] = "recordPayment_create"
  /\ payment' = payment \cup {NewPayment(payment, op[p].billingId, op[p].amount,
                                         "CASH", "undefined", "SUCCESS")}
  /\ Goto(p, "recordPayment_update", op[p])
  /\ UNCHANGED <<billingVars, workflowVars, stockVars>>

\* recordPayment steps 6 to 10: the balance read in step 1 less the amount
RecordPayment_Update(p) ==
  /\ pc[p] = "recordPayment_update"
  /\ LET newBalance == op[p].currentBalance - op[p].amount
         newStatus == BillStatusFor(newBalance, op[p].total)
     IN  /\ billing' = UpdateBalance(billing, op[p].billingId, newBalance, newStatus)
         /\ Respond(p, [call |-> "recordPayment", visitId |-> "none", kind |-> "OK",
                        balance |-> newBalance, status |-> newStatus])
  /\ UNCHANGED <<year, clock, prescriptions, labOrders, payment, workflowVars, stockVars>>

\* handleWebhook with a valid signature and event payment.captured, up to the
\* findFirst of handlePaymentCaptured: a delivery without billingId in its
\* notes, or of a payment id already on record, is dropped
HandlePaymentCaptured_FindExisting(p, paymentEntity) ==
  /\ pc[p] = "idle"
  /\ Cardinality(payment) < MaxPayments
  /\ LET me == [call |-> "handlePaymentCaptured", visitId |-> "none"]
     IN  IF paymentEntity.notes = <<>>
           THEN Respond(p, me @@ [kind |-> "NoBillingId"])
           ELSE IF FindPaymentByRazorpayId(payment, paymentEntity.id) # {}
             THEN Respond(p, me @@ [kind |-> "AlreadyRecorded"])
             ELSE Goto(p, "handlePaymentCaptured_findBill",
                       [paymentId |-> paymentEntity.id, billingId |-> paymentEntity.notes[1],
                        amount |-> PaiseToAmount(paymentEntity.amount)])
  /\ UNCHANGED <<billingVars, payment, workflowVars, stockVars>>

\* handlePaymentCaptured: the bill is read after the duplicate check
HandlePaymentCaptured_FindBill(p) ==
  /\ pc[p] = "handlePaymentCaptured_findBill"
  /\ LET found == FindBilling(op[p].billingId)
     IN  IF found = {}
           THEN Respond(p, [call |-> "handlePaymentCaptured", visitId |-> "none",
                            kind |-> "BillNotFound"])
           ELSE LET bill == CHOOSE b \in found : TRUE
                IN  Goto(p, "handlePaymentCaptured_create",
                         op[p] @@ [currentBalance |-> bill.balance, total |-> bill.total])
  /\ UNCHANGED <<billingVars, payment, workflowVars, stockVars>>

\* handlePaymentCaptured: the payment row. The schema is not part of this
\* tree: should it declare razorpayPaymentId unique, create rejects a second
\* row of the same id and the handler rethrows; otherwise the row is inserted.
HandlePaymentCaptured_Create(p) ==
  /\ pc[p] = "handlePaymentCaptured_create"
  /\ \/ /\ payment' = payment \cup {NewPayment(payment, op[p].billingId, op[p].amount,
                                               "RAZORPAY_LINK", op[p].paymentId, "SUCCESS")}
        /\ Goto(p, "handlePaymentCaptured_update", op[p])
     \/ /\ FindPaymentByRazorpayId(payment, op[p].paymentId) # {}
        /\ UNCHANGED payment
        /\ Respond(p, [call |-> "handlePaymentCaptured", visitId |-> "none",
                       kind |-> "UniqueConstraintFailed"])
  /\ UNCHANGED <<billingVars, workflowVars, stockVars>>

\* handlePaymentCaptured: bill.balance as read before, less the amount; there
\* is no comparison of the amount with the balance on this path
HandlePaymentCaptured_Update(p) ==
  /\ pc[p] = "handlePaymentCaptured_update"
  /\ LET newBalance == op[p].currentBalance - op[p].amount
         newStatus == BillStatusFor(newBalance, op[p].total)
     IN  /\ billing' = UpdateBalance(billing, op[p].billingId, newBalance, newStatus)
         /\ Respond(p, [call |-> "handlePaymentCaptured", visitId |-> "none", kind |-> "OK",
                        balance |-> newBalance, status |-> newStatus])
  /\ UNCHANGED <<year, clock, prescriptions, labOrders, payment, workflowVars, stockVars>>

\* handleWebhook with event payment.failed: a FAILED row of amount 0 for audit
HandlePaymentFailed(p, paymentEntity) ==
  /\ pc[p] = "idle"
  /\ Cardinality(payment) < MaxPayments
  /\ IF paymentEntity.notes = <<>>
       THEN UNCHANGED payment
       ELSE payment' = payment \cup {NewPayment(payment, paymentEntity.notes[1], 0,
                                                "RAZORPAY_LINK", paymentEntity.id, "FAILED")}
  /\ Respond(p, [call |-> "handlePaymentFailed", visitId |-> "none", kind |-> "OK"])
  /\ UNCHANGED <<billingVars, workflowVars, stockVars>>

\* ----------------------------------------------------------------- workflow
PatientStage == {"REGISTERED", "VITALS_PENDING", "DOCTOR_PENDING", "LAB_PENDING",
                 "DOCTOR_REVIEW_PENDING", "PHARMACY_PENDING", "BILLING_PENDING", "COMPLETED"}

VALID_TRANSITIONS ==
  [s \in PatientStage |->
     CASE s = "REGISTERED" -> <<"VITALS_PENDING">>
       [] s = "VITALS_PENDING" -> <<"DOCTOR_PENDING">>
       [] s = "DOCTOR_PENDING" -> <<"LAB_PENDING", "PHARMACY_PENDING", "BILLING_PENDING", "COMPLETED">>
       [] s = "LAB_PENDING" -> <<"DOCTOR_REVIEW_PENDING", "PHARMACY_PENDING">>
       [] s = "DOCTOR_REVIEW_PENDING" -> <<"PHARMACY_PENDING", "BILLING_PENDING", "LAB_PENDING">>
       [] s = "PHARMACY_PENDING" -> <<"BILLING_PENDING", "LAB_PENDING">>
       [] s = "BILLING_PENDING" -> <<"COMPLETED">>
       [] s = "COMPLETED" -> <<>>]

\* allowedTransitions.includes(toStage)
isTransitionValid(fromStage, toStage) ==
  \E i \in 1..Len(VALID_TRANSITIONS[fromStage]) : VALID_TRANSITIONS[fromStage][i] = toStage

\* the patient row written by both stage-changing transactions
StageData(toStage) ==
  [stage |-> toStage,
   status |-> IF toStage = "COMPLETED" THEN "COMPLETED" ELSE "IN_PROGRESS"]

\* the prescriptions and lab orders the include of the routing queries finds:
\* every one on record is of the consulting doctor and of the last 24 hours
hasPrescription(patientId) == Len(prescriptions[patientId]) > 0
hasLabOrder(patientId) == Len(labOrders[patientId]) > 0

\* the stage autoRouteAfterConsultation picks
RouteAfterConsultation(patientId) ==
  IF hasLabOrder(patientId) /\ hasPrescription(patientId) THEN "LAB_PENDING"
  ELSE IF hasLabOrder(patientId) THEN "LAB_PENDING"
  ELSE IF hasPrescription(patientId) THEN "PHARMACY_PENDING"
  ELSE "BILLING_PENDING"

\* the stage completeLabWork picks
RouteAfterLabWork(patientId) ==
  IF hasPrescription(patientId) THEN "PHARMACY_PENDING" ELSE "BILLING_PENDING"

\* transitionPatient up to its transaction: read the patient, validate the
\* transition against the stage just read
TransitionPatient_FindPatient(p, call, patientId, toStage) ==
  LET me == [call |-> call, visitId |-> "none", patientId |-> patientId, toStage |-> toStage]
  IN  /\ IF patientId \notin DOMAIN patientRecord
           THEN Respond(p, me @@ [kind |-> "BadRequest", message |-> "Patient not found",
                                  fromStage |-> "none"])
           ELSE IF ~ isTransitionValid(patientRecord[patientId].stage, toStage)
             THEN Respond(p, me @@ [kind |-> "BadRequest", message |-> "Invalid transition",
                                    fromStage |-> patientRecord[patientId].stage])
             ELSE Goto(p, "transitionPatient_commit",
                       me @@ [fromStage |-> patientRecord[patientId].stage])
      /\ UNCHANGED <<billingVars, payment, workflowVars, stockVars>>

\* POST patients/:id/transition
TransitionPatient(p, patientId, toStage) ==
  /\ pc[p] = "idle"
  /\ Len(patientStateHistory) < MaxHistory
  /\ TransitionPatient_FindPatient(p, "transitionPatient", patientId, toStage)

\* completeVitals, completePharmacy and completeBilling: transitionPatient to
\* a fixed stage
CompleteVitals(p, patientId) ==
  /\ pc[p] = "idle"
  /\ Len(patientStateHistory) < MaxHistory
  /\ TransitionPatient_FindPatient(p, "completeVitals", patientId, "DOCTOR_PENDING")

CompletePharmacy(p, patientId) ==
  /\ pc[p] = "idle"
  /\ Len(patientStateHistory) < MaxHistory
  /\ TransitionPatient_FindPatient(p, "completePharmacy", patientId, "BILLING_PENDING")

CompleteBilling(p, patientId) ==
  /\ pc[p] = "idle"
  /\ Len(patientStateHistory) < MaxHistory
  /\ TransitionPatient_FindPatient(p, "completeBilling", patientId, "COMPLETED")

\* autoRouteAfterConsultation up to its call of transitionPatient
AutoRouteAfterConsultation_FindPatient(p, patientId) ==
  /\ pc[p] = "idle"
  /\ Len(patientStateHistory) < MaxHistory
  /\ IF patientId \notin DOMAIN patientRecord
       THEN Respond(p, [call |-> "autoRouteAfterConsultation", visitId |-> "none",
                        patientId |-> patientId, toStage |-> "none", kind |-> "BadRequest",
                        message |-> "Patient not found", fromStage |-> "none"])
       ELSE Goto(p, "transitionPatient",
                 [call |-> "autoRouteAfterConsultation", patientId |-> patientId,
                  toStage |-> RouteAfterConsultation(patientId)])
  /\ UNCHANGED <<billingVars, payment, workflowVars, stockVars>>

\* completeLabWork up to its call of transitionPatient
CompleteLabWork_FindPatient(p, patientId) ==
  /\ pc[p] = "idle"
  /\ Len(patientStateHistory) < MaxHistory
  /\ IF patientId \notin DOMAIN patientRecord
       THEN Respond(p, [call |-> "completeLabWork", visitId |-> "none",
                        patientId |-> patientId, toStage |-> "none", kind |-> "BadRequest",
                        message |-> "Patient not found", fromStage |-> "none"])
       ELSE Goto(p, "transitionPatient",
                 [call |-> "completeLabWork", patientId |-> patientId,
                  toStage |-> RouteAfterLabWork(patientId)])
  /\ UNCHANGED <<billingVars, payment, workflowVars, stockVars>>

\* the transitionPatient called by the two routing operations
TransitionPatient_Called(p) ==
  /\ pc[p] = "transitionPatient"
  /\ TransitionPatient_FindPatient(p, op[p].call, op[p].patientId, op[p].toStage)

\* transitionPatient's transaction: the patient row and the history entry,
\* fromStage being the stage read before
TransitionPatient_Commit(p) ==
  /\ pc[p] = "transitionPatient_commit"
  /\ patientRecord' = [patientRecord EXCEPT ![op[p].patientId] = StageData(op[p].toStage)]
  /\ patientStateHistory' = Append(patientStateHistory,
                                   [patientId |-> op[p].patientId,
                                    fromStage |-> op[p].fromStage, toStage |-> op[p].toStage])
  /\ Respond(p, [call |-> op[p].call, visitId |-> "none", patientId |-> op[p].patientId,
                 toStage |-> op[p].toStage, kind |-> "OK", message |-> "none",
                 fromStage |-> op[p].fromStage])
  /\ UNCHANGED <<billingVars, payment, stockVars>>

\* PatientsService.updatePatientStage up to its transaction: the patient is
\* read, the stage asked for is not compared with anything
UpdatePatientStage_FindPatient(p, patientId, toStage) ==
  /\ pc[p] = "idle"
  /\ Len(patientStateHistory) < MaxHistory
  /\ IF patientId \notin DOMAIN patientRecord
       THEN Respond(p, [call |-> "updatePatientStage", visitId |-> "none",
                        patientId |-> patientId, toStage |-> toStage, kind |-> "NotFound",
                        message |-> "Patient not found", fromStage |-> "none"])
       ELSE Goto(p, "updatePatientStage_commit",
                 [call |-> "updatePatientStage", patientId |-> patientId, toStage |-> toStage,
                  fromStage |-> patientRecord[patientId].stage])
  /\ UNCHANGED <<billingVars, payment, workflowVars, stockVars>>

\* updatePatientStage's transaction
UpdatePatientStage_Commit(p) ==
  /\ pc[p] = "updatePatientStage_commit"
  /\ patientRecord' = [patientRecord EXCEPT ![op[p].patientId] = StageData(op[p].toStage)]
  /\ patientStateHistory' = Append(patientStateHistory,
                                   [patientId |-> op[p].patientId,
                                    fromStage |-> op[p].fromStage, toStage |-> op[p].toStage])
  /\ Respond(p, [call |-> "updatePatientStage", visitId |-> "none",
                 patientId |-> op[p].patientId, toStage |-> op[p].toStage, kind |-> "OK",
                 message |-> "none", fromStage |-> op[p].fromStage])
  /\ UNCHANGED <<billingVars, payment, stockVars>>

\* -------------------------------------------------------- stock reservation
\* 30 minutes, the lifetime of a reservation, in ticks of the clock
ReservationTicks == 1

\* the quantities of the unexpired items of one medicine in a list of items
RECURSIVE ReservedIn(_, _, _, _)
ReservedIn(items, medicineId, at, i) ==
  IF i > Len(items) THEN 0
  ELSE (IF items[i].medicineId = medicineId /\ items[i].expiresAt > at
          THEN items[i].quantity ELSE 0)
       + ReservedIn(items, medicineId, at, i + 1)

RECURSIVE ReservedOver(_, _, _, _)
ReservedOver(map, keys, medicineId, at) ==
  IF keys = {} THEN 0
  ELSE LET k == CHOOSE x \in keys : TRUE
       IN  ReservedIn(map[k], medicineId, at, 1) + ReservedOver(map, keys \ {k}, medicineId, at)

\* getReservedQuantity: over every reservation in the map
getReservedQuantity(medicineId) ==
  ReservedOver(reservations, DOMAIN reservations, medicineId, dateNow)

\* Map.set and Map.delete
MapSet(map, key, value) == [k \in DOMAIN map \cup {key} |-> IF k = key THEN value ELSE map[k]]
MapDelete(map, key) == [k \in DOMAIN map \ {key} |-> map[k]]

\* prisma.medicine.findUnique for the item the loop of reserveStock is at
ReserveStock_Read(p, locals) ==
  LET medicineId == locals.items[locals.i].medicineId
  IN  Goto(p, "reserveStock_check",
           locals @@ [found |-> medicineId \in DOMAIN currentStock,
                      stock |-> IF medicineId \in DOMAIN currentStock
                                  THEN currentStock[medicineId] ELSE 0])

\* reserveStock: the call and the read of its first item's medicine
ReserveStock_Begin(p, billingId, items) ==
  /\ pc[p] = "idle"
  /\ ReserveStock_Read(p, [billingId |-> billingId, items |-> items, i |-> 1])
  /\ UNCHANGED <<billingVars, payment, workflowVars, stockVars>>

\* reserveStock after the read of an item's medicine: the stock read less what
\* the map holds now must cover this item; after the last item the request's
\* items replace the bill's entry in the map
ReserveStock_Check(p) ==
  /\ pc[p] = "reserveStock_check"
  /\ LET item == op[p].items[op[p].i]
         available == op[p].stock - getReservedQuantity(item.medicineId)
         me == [call |-> "reserveStock", visitId |-> "none"]
     IN  IF ~ op[p].found
           THEN /\ Respond(p, me @@ [kind |-> "BadRequest", message |-> "not found"])
                /\ UNCHANGED reservations
           ELSE IF available < item.quantity
             THEN /\ Respond(p, me @@ [kind |-> "BadRequest", message |-> "Insufficient stock"])
                  /\ UNCHANGED reservations
             ELSE IF op[p].i < Len(op[p].items)
               THEN /\ Goto(p, "reserveStock_find",
                            [billingId |-> op[p].billingId, items |-> op[p].items,
                             i |-> op[p].i + 1])
                    /\ UNCHANGED reservations
               ELSE /\ reservations' =
                         MapSet(reservations, op[p].billingId,
                                [k \in 1..Len(op[p].items) |->
                                   [medicineId |-> op[p].items[k].medicineId,
                                    quantity |-> op[p].items[k].quantity,
                                    expiresAt |-> dateNow + ReservationTicks]])
                    /\ Respond(p, me @@ [kind |-> "OK", message |-> "none"])
  /\ UNCHANGED <<billingVars, payment, workflowVars, currentStock, dateNow>>

\* reserveStock: the read of the next item's medicine
ReserveStock_FindMedicine(p) ==
  /\ pc[p] = "reserveStock_find"
  /\ ReserveStock_Read(p, op[p])
  /\ UNCHANGED <<billingVars, payment, workflowVars, stockVars>>

\* releaseStock
ReleaseStock(p, billingId) ==
  /\ pc[p] = "idle"
  /\ billingId \in DOMAIN reservations
  /\ reservations' = MapDelete(reservations, billingId)
  /\ Respond(p, [call |-> "releaseStock", visitId |-> "none", kind |-> "OK"])
  /\ UNCHANGED <<billingVars, payment, workflowVars, currentStock, dateNow>>

\* confirmReservation: the reservation is taken from the map as it is, expired
\* or not; without one the call returns
ConfirmReservation_Begin(p, billingId) ==
  /\ pc[p] = "idle"
  /\ IF billingId \notin DOMAIN reservations
       THEN Respond(p, [call |-> "confirmReservation", visitId |-> "none",
                        kind |-> "NoReservation"])
       ELSE Goto(p, "confirmReservation_update",
                 [billingId |-> billingId, items |-> reservations[billingId], i |-> 1])
  /\ UNCHANGED <<billingVars, payment, workflowVars, stockVars>>

\* confirmReservation: currentStock: { decrement: quantity } for one item
ConfirmReservation_Update(p) ==
  /\ pc[p] = "confirmReservation_update"
  /\ LET item == op[p].items[op[p].i]
     IN  currentStock' = [currentStock EXCEPT ![item.medicineId] = @ - item.quantity]
  /\ Goto(p, IF op[p].i < Len(op[p].items) THEN "confirmReservation_update"
                                            ELSE "confirmReservation_delete",
          [op[p] EXCEPT !.i = @ + 1])
  /\ UNCHANGED <<billingVars, payment, workflowVars, reservations, dateNow>>

\* confirmReservation after its last update: the bill's entry leaves the map
ConfirmReservation_Delete(p) ==
  /\ pc[p] = "confirmReservation_delete"
  /\ reservations' = MapDelete(reservations, op[p].billingId)
  /\ Respond(p, [call |-> "confirmReservation", visitId |-> "none", kind |-> "OK"])
  /\ UNCHANGED <<billingVars, payment, workflowVars, currentStock, dateNow>>

\* cleanupExpiredReservations, on its timer: entries whose items have all expired
CleanupExpiredReservations ==
  LET expired == {k \in DOMAIN reservations :
                    \A i \in 1..Len(reservations[k]) : reservations[k][i].expiresAt <= dateNow}
  IN  /\ expired # {}
      /\ reservations' = [k \in DOMAIN reservations \ expired |-> reservations[k]]
      /\ UNCHANGED <<billingVars, payment, workflowVars, currentStock, dateNow, pc, op, result>>

\* 30 minutes pass
Tick ==
  /\ dateNow < MaxTime
  /\ dateNow' = dateNow + 1
  /\ UNCHANGED <<billingVars, payment, workflowVars, currentStock, reservations, pc, op, result>>

\* ------------------------------------------------------------ specifications
Sequential == {"p1"}
OneVisit == {"visit-1", "invalid-visit"}
Idle == \A p \in Procs : pc[p] = "idle"

BillingStep(P, V) ==
  \/ \E p \in P, v \in V : GenerateBill_FindVisit(p, v)
  \/ \E p \in P : GenerateBill_CheckExisting(p)
  \/ \E p \in P : GenerateBill_Aggregate(p)
  \/ \E p \in P : GenerateBill_CreateBillNumber(p)
  \/ \E p \in P : GenerateBill_Create(p)
  \/ \E p \in P, v \in V : PreviewBill(p, v)

\* a status update that arrives while no billing request is running
LabStepBetweenRequests ==
  \E patient \in Patients, i \in 1..MaxRecordLabs, status \in LabStatus :
    Idle /\ UpdateLabOrder(patient, i, status)

\* concurrent billing requests against one patient's record
Init == InitWith(PrescriptionLists(1, MaxRecordItems), LabOrderLists(0, LabStatus),
                 PriorStores({0, 5}))
Next == BillingStep(Procs, VisitRequests)
Spec == Init /\ [][Next]_vars

\* one request at a time, the lab orders created PENDING and updated in between
InitSeq == InitWith(PrescriptionLists(1, MaxRecordItems), LabOrderLists(MaxRecordLabs, {"PENDING"}),
                    PriorStores({0}))
NextSeq == BillingStep(Sequential, OneVisit) \/ LabStepBetweenRequests
SpecSeq == InitSeq /\ [][NextSeq]_vars

\* one request at a time across a change of year, from every numbering on record
InitNum == InitWith(PrescriptionLists(1, MaxRecordItems), LabOrderLists(0, LabStatus),
                    PriorStores({0, 5, 9998}))
NextNum == BillingStep(Sequential, VisitRequests) \/ NewYear
SpecNum == InitNum /\ [][NextNum]_vars

\* the aggregation applied to every shape of patient record
InitAgg == InitWith(PrescriptionLists(MaxRx, MaxItems), LabOrderLists(MaxLab, LabStatus),
                    PriorStores({0, 5}))
NextAgg == \E v \in Visits : PreviewBill("p1", v)
SpecAgg == InitAgg /\ [][NextAgg]_vars

\* payments against the one bill on record (total 354.00): manual payments by
\* recordPayment and Razorpay webhook deliveries, two requests at a time
PaymentDtos == [billingId : {0, 404}, amount : {0, 154000, 354000, 400000}]
PaymentEntities ==
  {[id |-> "pay_1", amount |-> 20000, notes |-> <<0>>],
   [id |-> "pay_2", amount |-> 35400, notes |-> <<0>>],
   [id |-> "pay_3", amount |-> 100, notes |-> <<404>>],
   [id |-> "pay_4", amount |-> 100, notes |-> <<>>]}
InitPay == InitWith({<<>>}, {<<>>}, PriorStores({5}))
NextPay ==
  \/ \E p \in Procs, dto \in PaymentDtos : RecordPayment_FindBill(p, dto)
  \/ \E p \in Procs : RecordPayment_Create(p)
  \/ \E p \in Procs : RecordPayment_Update(p)
  \/ \E p \in Procs, e \in PaymentEntities : HandlePaymentCaptured_FindExisting(p, e)
  \/ \E p \in Procs : HandlePaymentCaptured_FindBill(p)
  \/ \E p \in Procs : HandlePaymentCaptured_Create(p)
  \/ \E p \in Procs : HandlePaymentCaptured_Update(p)
  \/ \E p \in Procs, e \in PaymentEntities : HandlePaymentFailed(p, e)
SpecPay == InitPay /\ [][NextPay]_vars

\* the workflow of one patient from registration, one request at a time; the
\* patient has a prescription or not, a lab order or not
PatientRequests == Patients \cup {"patient-0"}
StageUpdates == {"REGISTERED", "LAB_PENDING"}
InitFlow == InitWith(PrescriptionLists(1, 0), LabOrderLists(1, {"PENDING"}), {{}})
NextFlow ==
  \/ \E p \in Sequential, id \in PatientRequests, s \in PatientStage : TransitionPatient(p, id, s)
  \/ \E p \in Sequential, id \in PatientRequests : CompleteVitals(p, id)
  \/ \E p \in Sequential, id \in PatientRequests : AutoRouteAfterConsultation_FindPatient(p, id)
  \/ \E p \in Sequential, id \in PatientRequests : CompleteLabWork_FindPatient(p, id)
  \/ \E p \in Sequential, id \in PatientRequests : CompletePharmacy(p, id)
  \/ \E p \in Sequential, id \in PatientRequests : CompleteBilling(p, id)
  \/ \E p \in Sequential : TransitionPatient_Called(p)
  \/ \E p \in Sequential : TransitionPatient_Commit(p)
  \/ \E p \in Sequential, id \in PatientRequests, s \in StageUpdates : UpdatePatientStage_FindPatient(p, id, s)
  \/ \E p \in Sequential : UpdatePatientStage_Commit(p)
SpecFlow == InitFlow /\ [][NextFlow]_vars

\* reservations for two bills against a stock of 3 per medicine, two calls at
\* a time
ReservationBills == {"bill-1", "bill-2"}
ReservationRequests ==
  {<<[medicineId |-> "med-1", quantity |-> 2]>>,
   <<[medicineId |-> "med-1", quantity |-> 2], [medicineId |-> "med-1", quantity |-> 2]>>,
   <<[medicineId |-> "med-0", quantity |-> 1]>>}
InitStock == InitWith({<<>>}, {<<>>}, {{}})
NextStock ==
  \/ \E p \in Procs, b \in ReservationBills, items \in ReservationRequests :
       ReserveStock_Begin(p, b, items)
  \/ \E p \in Procs : ReserveStock_Check(p)
  \/ \E p \in Procs : ReserveStock_FindMedicine(p)
  \/ \E p \in Procs, b \in ReservationBills : ReleaseStock(p, b)
  \/ \E p \in Procs, b \in ReservationBills : ConfirmReservation_Begin(p, b)
  \/ \E p \in Procs : ConfirmReservation_Update(p)
  \/ \E p \in Procs : ConfirmReservation_Delete(p)
  \/ CleanupExpiredReservations
  \/ Tick
SpecStock == InitStock /\ [][NextStock]_vars

\* ------------------------------------------------------------------- claims
\* a call of process p has just returned or thrown

\* the tax calculator called on its own: amounts in mills around the cent
\* boundaries and the amounts of the unit tests, rates in percent
TaxRates == {-1, 0, 5, 12, 18, 100, 101}
TaxAmounts == (-1..MaxAmount) \cup {100000, 200000, 500000}
ItemPrices == {-1, 5, 4620, 100000}
ItemRates == {0, 12, 18, 101}
BillItems == [description : {"item"}, quantity : -1..MaxQuantity, unitPrice : ItemPrices,
              taxRate : ItemRates, isTaxInclusive : BOOLEAN]
ListedItems ==
  {[description |-> "Paracetamol 500mg", quantity |-> 15, unitPrice |-> 100000,
    taxRate |-> 12, isTaxInclusive |-> TRUE],
   [description |-> "CBC Test", quantity |-> 1, unitPrice |-> 500000,
    taxRate |-> 18, isTaxInclusive |-> FALSE],
   [description |-> "Swab", quantity |-> 1, unitPrice |-> 5,
    taxRate |-> 0, isTaxInclusive |-> FALSE],
   [description |-> "Rate out of range", quantity |-> 1, unitPrice |-> 100000,
    taxRate |-> 101, isTaxInclusive |-> FALSE]}
ItemLists == {<<item>> : item \in BillItems} \cup SeqsUpTo(ListedItems, MaxLines)

InitTax == InitWith({<<>>}, {<<>>}, {{}})
NextTax ==
  \/ \E mrp \in TaxAmounts, taxRate \in TaxRates : CalculateInclusiveTax("p1", mrp, taxRate)
  \/ \E basePrice \in TaxAmounts, taxRate \in TaxRates : CalculateExclusiveTax("p1", basePrice, taxRate)
  \/ \E items \in ItemLists : GenerateTaxBreakdown("p1", items)
  \/ \E taxAmount \in TaxAmounts, isInterState \in BOOLEAN : SplitGST("p1", taxAmount, isInterState)
SpecTax == InitTax /\ [][NextTax]_vars
Responded(p) == pc'[p] = "idle" /\ (pc[p] # "idle" \/ result'[p] # result[p])
BillsOfVisit(bills, visitId) == {b \in bills : b.visitId = visitId}
UnbilledOf(visitId) ==
  aggregateUnbilledItems(prescriptions[VisitPatient(visitId)], labOrders[VisitPatient(visitId)])

\* C1: in every reachable state, whatever the interleaving of generateBill
\* calls, the billing table holds at most one bill per visitId.
C1_OneBillPerVisit ==
  \A b1 \in billing, b2 \in billing : b1.visitId = b2.visitId => b1 = b2

\* two calls for one visit both passed the existence check; the later insert,
\* carrying a fresh bill number, was refused
C1_Witness ==
  \E p \in Procs :
    /\ result[p].kind = "UniqueConstraintFailed"
    /\ \E b \in billing : b.visitId = result[p].visitId /\ b.billNumber # result[p].billNumber

\* C2: in every reachable state, whatever the interleaving of generateBill
\* calls for different visits, no two bills on record carry the same billNumber.
C2_BillNumbersDistinct ==
  \A b1 \in billing, b2 \in billing : b1.billNumber = b2.billNumber => b1 = b2

\* two calls for different visits read the same latest bill; one insert was
\* refused for its bill number while both visits ended up billed
C2_Witness ==
  \E p \in Procs :
    /\ result[p].kind = "UniqueConstraintFailed"
    /\ \E b \in billing : b.billNumber = result[p].billNumber /\ b.visitId # result[p].visitId
    /\ \A v \in Visits : v # result[p].visitId => BillsOfVisit(billing, v) # {}

\* C3: a generateBill call for a visit that already has a bill fails with
\* AlreadyExists carrying that bill's number and leaves the billing table as
\* it was (one bill for the visit, no number taken).
C3_SecondCallAlreadyExists ==
  [][\A p \in Procs :
       (/\ pc[p] = "checkExisting"
        /\ BillsOfVisit(billing, op[p].visitId) # {}
        /\ pc'[p] # "checkExisting")
       => /\ Responded(p)
          /\ result'[p].call = "generateBill"
          /\ result'[p].kind = "AlreadyExists"
          /\ \E b \in billing : b.visitId = op[p].visitId /\ b.billNumber = result'[p].billNumber
          /\ billing' = billing
          /\ clock' = clock
          /\ Cardinality(BillsOfVisit(billing', op[p].visitId)) = 1]_vars

C3_Witness ==
  \E p \in Procs :
    /\ result[p].kind = "AlreadyExists"
    /\ \E b \in billing : b.visitId = result[p].visitId /\ b.billNumber = result[p].billNumber

\* C4: for an existing visit whose aggregation is empty, generateBill fails
\* with NothingToBill and writes nothing, and previewBill returns items = [],
\* subtotal = 0, taxAmount = 0, total = 0.
C4_EmptyAggregation ==
  [][\A p \in Procs :
       /\ (/\ pc[p] = "aggregate"
           /\ Len(UnbilledOf(op[p].visitId)) = 0
           /\ pc'[p] # "aggregate")
          => /\ Responded(p)
             /\ result'[p].kind = "NothingToBill"
             /\ billing' = billing
       /\ (/\ Responded(p)
           /\ result'[p].call = "previewBill"
           /\ result'[p].visitId \in Visits
           /\ Len(UnbilledOf(result'[p].visitId)) = 0)
          => /\ result'[p].kind = "Preview"
             /\ result'[p].items = <<>>
             /\ result'[p].subtotal = 0
             /\ result'[p].taxAmount = 0
             /\ result'[p].total = 0
             /\ billing' = billing]_vars

C4_Witness ==
  \E p \in Procs :
    /\ result[p].kind = "NothingToBill"
    /\ Len(UnbilledOf(result[p].visitId)) = 0
    /\ BillsOfVisit(billing, result[p].visitId) = {}

\* C5: for a visit that does not exist generateBill and previewBill fail with
\* NotFound and the billing table is unchanged; generateBill decides in the
\* order missing visit, existing bill, empty aggregation.
ExpectedOutcome(visitId) ==
  IF visitId \notin Visits THEN "NotFound"
  ELSE IF BillsOfVisit(billing, visitId) # {} THEN "AlreadyExists"
  ELSE IF Len(UnbilledOf(visitId)) = 0 THEN "NothingToBill"
  ELSE "Bill"

C5_NotFoundFirst ==
  [][\A p \in Procs :
       Responded(p) =>
         /\ result'[p].visitId \notin Visits
              => result'[p].kind = "NotFound" /\ billing' = billing
         /\ result'[p].call = "generateBill"
              => result'[p].kind = ExpectedOutcome(result'[p].visitId)]_vars

C5_Witness ==
  \E p \in Procs :
    /\ result[p].call = "generateBill"
    /\ result[p].kind = "NotFound"
    /\ result[p].visitId \notin Visits
    /\ billing # {}

\* the parts of a bill number and the numbering on record for a year
YearPart(billNumber) == split(billNumber, "/")[2]
SequencePart(billNumber) == split(billNumber, "/")[3]
SequenceOf(billNumber) == parseInt(SequencePart(billNumber))
BillsOfYear(bills, y) == {b \in bills : YearPart(b.billNumber) = NumberToString(y)}
HighestSequence(bills, y) ==
  IF BillsOfYear(bills, y) = {} THEN 0
  ELSE CHOOSE n \in {SequenceOf(b.billNumber) : b \in BillsOfYear(bills, y)} :
         \A b \in BillsOfYear(bills, y) : SequenceOf(b.billNumber) <= n
Allocates(p) == pc[p] = "createBillNumber" /\ pc'[p] = "create"
AllDigits(s) == \A i \in 1..Len(s) : IsDigit(s[i])

\* C6: the number generateBill allocates has the sequence one above the
\* highest sequence on record for the current year (1 when the year has no
\* bill), so that bills generated one after another within a year carry
\* strictly increasing sequences.
C6_NextSequence ==
  [][/\ \A p \in Procs :
          Allocates(p) =>
            /\ YearPart(op'[p].billNumber) = NumberToString(year)
            /\ SequenceOf(op'[p].billNumber) = HighestSequence(billing, year) + 1
      /\ \A b1 \in billing', b2 \in billing' :
           (YearPart(b1.billNumber) = YearPart(b2.billNumber) /\ b1.generatedAt < b2.generatedAt)
             => SequenceOf(b1.billNumber) < SequenceOf(b2.billNumber)]_vars

\* after HMS/2024/0005 the next two bills are 0006 and 0007
C6_Witness ==
  /\ \E b \in billing : b.visitId = "visit-0" /\ b.billNumber = BillPrefix(FirstYear) \o <<"0", "0", "0", "5">>
  /\ \E b \in billing : b.billNumber = BillPrefix(FirstYear) \o <<"0", "0", "0", "6">>
  /\ \E b \in billing : b.billNumber = BillPrefix(FirstYear) \o <<"0", "0", "0", "7">>

\* C7 as stated: every allocated bill number is HMS/{year of generation}/NNNN
\* with exactly four digits, however many bills exist, and the first bill of
\* a year is 0001 whatever earlier years contain.
C7_FourDigits ==
  [][\A p \in Procs :
       Allocates(p) =>
         /\ op'[p].billNumber = BillPrefix(year) \o SequencePart(op'[p].billNumber)
         /\ AllDigits(SequencePart(op'[p].billNumber))
         /\ Len(SequencePart(op'[p].billNumber)) = 4
         /\ BillsOfYear(billing, year) = {}
              => SequencePart(op'[p].billNumber) = <<"0", "0", "0", "1">>]_vars

\* C7 as amended: every allocated bill number is HMS/{year of generation}/N,
\* N being the sequence in decimal, zero-padded to four digits and longer
\* than four digits only from 10000 on; the first bill of a year is 0001
\* whatever earlier years contain.
C7_AtLeastFourDigits ==
  [][\A p \in Procs :
       Allocates(p) =>
         /\ op'[p].billNumber = BillPrefix(year) \o SequencePart(op'[p].billNumber)
         /\ AllDigits(SequencePart(op'[p].billNumber))
         /\ Len(SequencePart(op'[p].billNumber)) >= 4
         /\ Len(SequencePart(op'[p].billNumber)) > 4
              => /\ SequencePart(op'[p].billNumber)[1] # "0"
                 /\ SequenceOf(op'[p].billNumber) >= 10000
         /\ BillsOfYear(billing, year) = {}
              => SequencePart(op'[p].billNumber) = <<"0", "0", "0", "1">>]_vars

\* the bill after HMS/2024/9999 is on record with a five-digit sequence
C7_Witness ==
  \E b \in billing : b.billNumber = BillPrefix(FirstYear) \o <<"1", "0", "0", "0", "0">>

\* the lines of one type in an aggregation
LinesOfType(items, type) == SelectSeq(items, LAMBDA it : it.itemType = type)
Previewed(p) ==
  Responded(p) /\ result'[p].call = "previewBill" /\ result'[p].kind = "Preview"

\* C8 as stated: the aggregation holds exactly one CONSULTATION line
\* (quantity 1, unit price 300, tax-exclusive, rate 0.18) if the patient of
\* the visit has a prescription or a lab order on record, whatever its
\* dispensed or completion status, and none otherwise.
C8_ConsultationIffRecorded ==
  [][\A p \in Procs :
       Previewed(p) =>
         LET patient == VisitPatient(result'[p].visitId)
             lines == LinesOfType(result'[p].items, "CONSULTATION")
         IN  IF Len(prescriptions[patient]) > 0 \/ Len(labOrders[patient]) > 0
               THEN /\ Len(lines) = 1
                    /\ lines[1].quantity = 1
                    /\ lines[1].unitPrice = 300000
                    /\ ~lines[1].isTaxInclusive
                    /\ lines[1].taxRate = 18
               ELSE Len(lines) = 0]_vars

\* C9: the MEDICINE lines are one per dispensed prescription item (its
\* quantity, the medicine's MRP, tax-inclusive, rate 0.12), the LAB_TEST lines
\* one per COMPLETED lab order (quantity 1, the test's price, tax-exclusive,
\* rate 0.18), and nothing else gets a line.
ItemsOnRecord(patient) ==
  UNION {{prescriptions[patient][i].items[j] : j \in 1..Len(prescriptions[patient][i].items)} :
           i \in 1..Len(prescriptions[patient])}
OrdersOnRecord(patient) == {labOrders[patient][i] : i \in 1..Len(labOrders[patient])}

C9_LinesMatchRecords ==
  [][\A p \in Procs :
       Previewed(p) =>
         LET patient == VisitPatient(result'[p].visitId)
             medicine == LinesOfType(result'[p].items, "MEDICINE")
             labTest == LinesOfType(result'[p].items, "LAB_TEST")
             dispensed == {it \in ItemsOnRecord(patient) : it.dispensed}
             completed == {o \in OrdersOnRecord(patient) : o.status = "COMPLETED"}
         IN  /\ Len(medicine) = Cardinality(dispensed)
             /\ \A it \in dispensed :
                  \E k \in 1..Len(medicine) :
                    /\ medicine[k].itemId = it.id
                    /\ medicine[k].quantity = it.quantity
                    /\ medicine[k].unitPrice = Medicines[it.medicineId].mrp
                    /\ medicine[k].isTaxInclusive
                    /\ medicine[k].taxRate = 12
             /\ Len(labTest) = Cardinality(completed)
             /\ \A o \in completed :
                  \E k \in 1..Len(labTest) :
                    /\ labTest[k].itemId = o.id
                    /\ labTest[k].quantity = 1
                    /\ labTest[k].unitPrice = LabTests[o.testId].price
                    /\ ~labTest[k].isTaxInclusive
                    /\ labTest[k].taxRate = 18
             /\ Len(result'[p].items) =
                  Len(LinesOfType(result'[p].items, "CONSULTATION")) + Len(medicine) + Len(labTest)]_vars

\* a preview with a medicine line and a lab test line of a patient who also
\* has an undispensed item on record
C9_Witness ==
  \E p \in Procs :
    /\ result[p].kind = "Preview"
    /\ Len(LinesOfType(result[p].items, "MEDICINE")) = 1
    /\ Len(LinesOfType(result[p].items, "LAB_TEST")) = 1
    /\ \E it \in ItemsOnRecord(VisitPatient(result[p].visitId)) : ~it.dispensed

\* C10: the bill a successful generateBill writes has the subtotal, tax amount
\* and total of the breakdown of the visit's aggregation, discount 0, balance
\* equal to the total and status PENDING.
C10_BillCarriesBreakdown ==
  [][\A p \in Procs :
       (pc[p] = "create" /\ billing' # billing) =>
         LET bill == CHOOSE b \in billing' \ billing : TRUE
             breakdown == generateTaxBreakdown(BillItemInputs(UnbilledOf(op[p].visitId)))
         IN  /\ billing' = billing \cup {bill}
             /\ result'[p].kind = "Bill"
             /\ result'[p].bill = bill
             /\ bill.visitId = op[p].visitId
             /\ bill.subtotal = breakdown.subtotal
             /\ bill.taxAmount = breakdown.totalTax
             /\ bill.total = breakdown.grandTotal
             /\ bill.discount = 0
             /\ bill.balance = bill.total
             /\ bill.status = "PENDING"]_vars

\* a bill of three lines on record: consultation, medicine and lab test
C10_Witness ==
  \E b \in billing :
    /\ b.visitId \in Visits
    /\ Len(b.items) = 3
    /\ b.taxAmount > 0
    /\ b.total > b.subtotal
    /\ b.balance = b.total

\* C11: the bill a successful generateBill writes has one line per aggregated
\* item, in aggregation order; line i carries the type and the reference of
\* aggregated item i and the amount, tax and total computed for that item.
C11_LinesTaggedInOrder ==
  [][\A p \in Procs :
       (pc[p] = "create" /\ billing' # billing) =>
         LET bill == CHOOSE b \in billing' \ billing : TRUE
             aggregated == UnbilledOf(op[p].visitId)
             breakdown == generateTaxBreakdown(BillItemInputs(aggregated))
         IN  /\ Len(bill.items) = Len(aggregated)
             /\ Len(bill.items) = Len(breakdown.items)
             /\ \A i \in 1..Len(bill.items) :
                  /\ bill.items[i].itemType = aggregated[i].itemType
                  /\ bill.items[i].itemId = aggregated[i].itemId
                  /\ bill.items[i].description = aggregated[i].description
                  /\ bill.items[i].quantity = aggregated[i].quantity
                  /\ bill.items[i].unitPrice = aggregated[i].unitPrice
                  /\ bill.items[i].amount = aggregated[i].quantity * aggregated[i].unitPrice
                  /\ bill.items[i].taxAmount = breakdown.items[i].taxAmount
                  /\ bill.items[i].total = breakdown.items[i].lineTotal]_vars

\* a bill on record whose lines are the consultation, a dispensed item and a
\* completed lab order, in that order, each with its own reference
C11_Witness ==
  \E b \in billing :
    /\ Len(b.items) = 3
    /\ b.items[1].itemType = "CONSULTATION"
    /\ b.items[2].itemType = "MEDICINE" /\ b.items[2].itemId = <<"rx-item", 1, 1>>
    /\ b.items[3].itemType = "LAB_TEST" /\ b.items[3].itemId = <<"lab", 1>>

\* C12: a previewBill call, whatever it returns, leaves the bill store as it
\* was and allocates no bill number.
C12_PreviewWritesNothing ==
  [][\A p \in Procs :
       (pc[p] = "idle" /\ Responded(p) /\ result'[p].call = "previewBill") =>
         /\ billing' = billing
         /\ clock' = clock
         /\ op'[p].billNumber = <<>>]_vars

\* a preview with lines has been returned and the visit still has no bill
C12_Witness ==
  \E p \in Procs :
    /\ result[p].call = "previewBill"
    /\ result[p].kind = "Preview"
    /\ Len(result[p].items) > 0
    /\ BillsOfVisit(billing, result[p].visitId) = {}

\* C13: a preview and a generated bill of the same visit, taken from the same
\* records, have the same lines in the same order and the same subtotal, tax
\* amount and total.
C13_PreviewMatchesBill ==
  \A p \in Procs, q \in Procs :
    (/\ result[p].kind = "Preview"
     /\ result[q].kind = "Bill"
     /\ result[p].visitId = result[q].visitId) =>
      LET preview == result[p]
          bill == result[q].bill
      IN  /\ Len(preview.items) = Len(bill.items)
          /\ \A i \in 1..Len(preview.items) :
               /\ preview.items[i].itemType = bill.items[i].itemType
               /\ preview.items[i].itemId = bill.items[i].itemId
               /\ preview.items[i].description = bill.items[i].description
               /\ preview.items[i].quantity = bill.items[i].quantity
               /\ preview.items[i].unitPrice = bill.items[i].unitPrice
               /\ preview.items[i].isTaxInclusive = bill.items[i].isTaxInclusive
               /\ preview.items[i].taxRate = bill.items[i].taxRate
          /\ preview.subtotal = bill.subtotal
          /\ preview.taxAmount = bill.taxAmount
          /\ preview.total = bill.total

\* one caller holds the preview of a visit, the other the bill generated for it
C13_Witness ==
  \E p \in Procs, q \in Procs :
    /\ result[p].kind = "Preview"
    /\ result[q].kind = "Bill"
    /\ result[p].visitId = result[q].visitId
    /\ Len(result[q].bill.items) = 2
    /\ result[p].total > result[p].subtotal

\* what the callers hold of one method, and "v is num/den rounded to 2 decimals"
Returned(method) == {result[p] : p \in {q \in Procs : result[q].call = method}}
Abs(x) == IF x < 0 THEN -x ELSE x
IsRounded(v, num, den) == v % Cent = 0 /\ 2 * Abs(v * den - num) <= Cent * den
ValidRate(rate) == 0 <= rate /\ rate <= RateDen

\* C14: for mrp >= 0 and 0 < taxRate <= 1, calculateInclusiveTax returns
\* baseAmount = mrp / (1 + taxRate) and taxAmount = mrp - mrp / (1 + taxRate),
\* each rounded to 2 decimals on its own, total = mrp untouched, the
\* inclusive flag and the given rate; 100 at 0.12 gives 89.29 / 10.71 / 100.
C14_InclusiveBreakdown ==
  \A r \in Returned("calculateInclusiveTax") :
    (r.amount >= 0 /\ 0 < r.rate /\ r.rate <= RateDen) =>
      /\ r.kind = "TaxBreakdown"
      /\ IsRounded(r.value.baseAmount, r.amount * RateDen, RateDen + r.rate)
      /\ IsRounded(r.value.taxAmount, r.amount * r.rate, RateDen + r.rate)
      /\ r.value.total = r.amount
      /\ r.value.isTaxInclusive
      /\ r.value.taxRate = r.rate
      /\ (r.amount = 100000 /\ r.rate = 12)
           => (r.value.baseAmount = 89290 /\ r.value.taxAmount = 10710)

\* a result whose total is the MRP although the rounded parts do not add up to it
C14_Witness ==
  \E r \in Returned("calculateInclusiveTax") :
    /\ r.kind = "TaxBreakdown"
    /\ r.rate > 0
    /\ r.value.total = r.amount
    /\ r.value.baseAmount + r.value.taxAmount # r.amount

\* C15: for mrp >= 0 and taxRate in [0, 1), the base amount of
\* calculateInclusiveTax times (1 + taxRate) is within one cent of the mrp.
C15_InclusiveRoundTrip ==
  \A r \in Returned("calculateInclusiveTax") :
    (r.amount >= 0 /\ 0 <= r.rate /\ r.rate < RateDen) =>
      /\ r.kind = "TaxBreakdown"
      /\ Abs(r.value.baseAmount * (RateDen + r.rate) - r.amount * RateDen) <= Cent * RateDen

\* a round trip that does not come back to the mrp exactly
C15_Witness ==
  \E r \in Returned("calculateInclusiveTax") :
    /\ r.kind = "TaxBreakdown"
    /\ r.rate > 0 /\ r.rate < RateDen
    /\ r.value.baseAmount > 0
    /\ r.value.baseAmount * (RateDen + r.rate) # r.amount * RateDen

\* C16: for basePrice >= 0 and taxRate in [0, 1], calculateExclusiveTax returns
\* the base price unrounded, taxAmount = basePrice * taxRate rounded and
\* total = basePrice + basePrice * taxRate rounded, each from the unrounded
\* value, and the total is within one cent of baseAmount + taxAmount;
\* 500 at 0.18 gives 500 / 90 / 590.
C16_ExclusiveBreakdown ==
  \A r \in Returned("calculateExclusiveTax") :
    (r.amount >= 0 /\ ValidRate(r.rate)) =>
      /\ r.kind = "TaxBreakdown"
      /\ r.value.baseAmount = r.amount
      /\ IsRounded(r.value.taxAmount, r.amount * r.rate, RateDen)
      /\ IsRounded(r.value.total, r.amount * (RateDen + r.rate), RateDen)
      /\ Abs(r.value.total - (r.value.baseAmount + r.value.taxAmount)) <= Cent
      /\ ~r.value.isTaxInclusive
      /\ (r.amount = 500000 /\ r.rate = 18)
           => (r.value.taxAmount = 90000 /\ r.value.total = 590000)

\* a result whose total is not the sum of its base and its tax
C16_Witness ==
  \E r \in Returned("calculateExclusiveTax") :
    /\ r.kind = "TaxBreakdown"
    /\ r.rate > 0
    /\ r.value.total # r.value.baseAmount + r.value.taxAmount

\* C17 as stated: for x >= 0 both calculateInclusiveTax(x, 0) and
\* calculateExclusiveTax(x, 0) return baseAmount = x, taxAmount = 0, total = x.
C17_ZeroRateIdentity ==
  \A r \in Returned("calculateInclusiveTax") \cup Returned("calculateExclusiveTax") :
    (r.amount >= 0 /\ r.rate = 0) =>
      /\ r.kind = "TaxBreakdown"
      /\ r.value.baseAmount = r.amount
      /\ r.value.taxAmount = 0
      /\ r.value.total = r.amount

\* C17 as amended: for x >= 0 calculateInclusiveTax(x, 0) returns baseAmount =
\* x, taxAmount = 0, total = x; calculateExclusiveTax(x, 0) returns baseAmount
\* = x, taxAmount = 0 and total = x rounded to 2 decimals, which is x when x
\* is a whole number of cents.
C17_ZeroRateRoundedTotal ==
  \A r \in Returned("calculateInclusiveTax") \cup Returned("calculateExclusiveTax") :
    (r.amount >= 0 /\ r.rate = 0) =>
      /\ r.kind = "TaxBreakdown"
      /\ r.value.baseAmount = r.amount
      /\ r.value.taxAmount = 0
      /\ IF r.call = "calculateInclusiveTax"
           THEN r.value.total = r.amount
           ELSE /\ IsRounded(r.value.total, r.amount, 1)
                /\ r.amount % Cent = 0 => r.value.total = r.amount

\* an exclusive zero-rate result whose total was rounded away from the amount
C17_Witness ==
  \E r \in Returned("calculateExclusiveTax") :
    /\ r.kind = "TaxBreakdown"
    /\ r.rate = 0
    /\ r.value.baseAmount = r.amount
    /\ r.value.total # r.amount

\* C18: calculateInclusiveTax and calculateExclusiveTax fail with 'Amount
\* cannot be negative' on a negative amount and with 'Tax rate must be
\* between 0 and 1' on a rate outside [0, 1], returning no result, and
\* generateTaxBreakdown fails as a whole, with no partial breakdown, when its
\* list holds such an item.
C18_InvalidInputFails ==
  /\ \A r \in Returned("calculateInclusiveTax") \cup Returned("calculateExclusiveTax") :
       /\ r.amount < 0
            => (r.kind = "Error" /\ r.value = [error |-> "Amount cannot be negative"])
       /\ (r.amount >= 0 /\ ~ValidRate(r.rate))
            => (r.kind = "Error" /\ r.value = [error |-> "Tax rate must be between 0 and 1"])
       /\ (r.amount >= 0 /\ ValidRate(r.rate)) => r.kind = "TaxBreakdown"
  /\ \A r \in Returned("generateTaxBreakdown") :
       (\E i \in 1..Len(r.items) : r.items[i].unitPrice < 0 \/ ~ValidRate(r.items[i].taxRate))
         => /\ r.kind = "Error"
            /\ DOMAIN r.value = {"error"}
            /\ r.value.error \in {"Amount cannot be negative", "Tax rate must be between 0 and 1"}

\* a list whose second item is invalid has failed although its first is valid
C18_Witness ==
  \E r \in Returned("generateTaxBreakdown") :
    /\ Len(r.items) = 2
    /\ r.items[1].unitPrice >= 0 /\ ValidRate(r.items[1].taxRate)
    /\ ~ValidRate(r.items[2].taxRate)
    /\ r.kind = "Error"

\* C19 as stated: generateTaxBreakdown on a list holding an item of quantity
\* less than 1 fails validation and returns no breakdown.
C19_QuantityValidated ==
  \A r \in Returned("generateTaxBreakdown") :
    (\E i \in 1..Len(r.items) : r.items[i].quantity < 1) => r.kind = "Error"

ValidItem(item) == item.quantity >= 1 /\ item.unitPrice >= 0 /\ ValidRate(item.taxRate)

\* C21 as stated: subtotal, totalTax and grandTotal of generateTaxBreakdown
\* are exactly the sums of the rounded baseAmount, taxAmount and lineTotal of
\* the lines it returns; the empty list gives no lines and three zeros.
C21_SumsOfRoundedLines ==
  \A r \in Returned("generateTaxBreakdown") :
    /\ r.kind = "CompleteTaxBreakdown" =>
         /\ r.value.subtotal = SumField(r.value.items, "baseAmount", 1)
         /\ r.value.totalTax = SumField(r.value.items, "taxAmount", 1)
         /\ r.value.grandTotal = SumField(r.value.items, "lineTotal", 1)
    /\ r.items = <<>> =>
         r.value = [items |-> <<>>, subtotal |-> 0, totalTax |-> 0, grandTotal |-> 0]

\* C22 as stated: for a list of valid items the grand total of
\* generateTaxBreakdown is within one cent of subtotal + totalTax.
C22_TotalsReconcile ==
  \A r \in Returned("generateTaxBreakdown") :
    (\A i \in 1..Len(r.items) : ValidItem(r.items[i])) =>
      /\ r.kind = "CompleteTaxBreakdown"
      /\ Abs(r.value.grandTotal - (r.value.subtotal + r.value.totalTax)) <= Cent

C25_BilledAtMostOnce ==
  \A b1 \in billing, b2 \in billing :
    b1 # b2 =>
      \A i \in 1..Len(b1.items), j \in 1..Len(b2.items) :
        b1.items[i].itemType \in {"MEDICINE", "LAB_TEST"} =>
          ~ (/\ b1.items[i].itemType = b2.items[j].itemType
             /\ b1.items[i].itemId = b2.items[j].itemId)


\* the amounts of a set of payment rows, added up
RECURSIVE SumAmounts(_)
SumAmounts(S) ==
  IF S = {} THEN 0
  ELSE LET pm == CHOOSE x \in S : TRUE IN pm.amount + SumAmounts(S \ {pm})
SuccessPayments(billingId) ==
  {pm \in payment : pm.billingId = billingId /\ pm.status = "SUCCESS"}

\* C26: once every recordPayment call and payment.captured delivery has
\* finished, each bill has 0 <= balance <= total and its balance is its total
\* less the sum of its SUCCESS payments: no payment above the outstanding
\* balance is applied.
C26_BalanceMatchesPayments ==
  Idle =>
    \A b \in billing :
      /\ 0 <= b.balance
      /\ b.balance <= b.total
      /\ b.balance = b.total - SumAmounts(SuccessPayments(b.id))

\* one SUCCESS row per Razorpay payment id, manual payments all kept
OncePerRazorpayId(S) ==
  {pm \in S : \/ pm.razorpayPaymentId = "undefined"
              \/ \A q \in S : q.razorpayPaymentId = pm.razorpayPaymentId => q.id >= pm.id}

\* C27: however often, and however interleaved, a payment.captured event is
\* delivered for one Razorpay payment id, there is at most one payment row for
\* that id and the bill's balance goes down by its amount at most once.
C27_CapturedOnce ==
  /\ \A e \in PaymentEntities :
       Cardinality({pm \in FindPaymentByRazorpayId(payment, e.id) : pm.status = "SUCCESS"}) <= 1
  /\ Idle =>
       \A b \in billing :
         b.total - b.balance <= SumAmounts(OncePerRazorpayId(SuccessPayments(b.id)))


\* C28: whichever operation changes it, a patient's stage changes only along
\* an edge of VALID_TRANSITIONS (so a COMPLETED patient stays COMPLETED), and
\* a call that is rejected leaves the stage and the state history as they were.
C28_StageFollowsTable ==
  [][/\ \A id \in Patients :
          patientRecord'[id].stage # patientRecord[id].stage =>
            isTransitionValid(patientRecord[id].stage, patientRecord'[id].stage)
     /\ \A p \in Procs :
          Responded(p) /\ result'[p].kind \in {"BadRequest", "NotFound"} =>
            UNCHANGED workflowVars]_vars

\* the stages reachable from a set of stages along at most n edges of the table
RECURSIVE StagesWithin(_, _)
StagesWithin(S, n) ==
  IF n = 0 THEN S
  ELSE StagesWithin(S \cup {t \in PatientStage : \E f \in S : isTransitionValid(f, t)}, n - 1)
CanReachCompleted(stage) == "COMPLETED" \in StagesWithin({stage}, Cardinality(PatientStage))

\* C29: completeLabWork on a patient in LAB_PENDING is never rejected: it
\* moves the patient to PHARMACY_PENDING when there is a prescription of the
\* last 24 hours and to BILLING_PENDING otherwise (from where COMPLETED is
\* reachable).
C29_LabWorkCompletes ==
  \A p \in Procs :
    result[p].call = "completeLabWork" /\ result[p].fromStage = "LAB_PENDING" =>
      /\ result[p].kind = "OK"
      /\ result[p].toStage = RouteAfterLabWork(result[p].patientId)
      /\ CanReachCompleted(result[p].toStage)


\* C30: once the reserveStock, releaseStock and confirmReservation calls in
\* flight have finished, whatever their interleaving, the unexpired
\* reservations of a medicine never hold more than its currentStock, and
\* currentStock is never negative.
C30_NeverOversold ==
  Idle =>
    \A m \in DOMAIN currentStock :
      /\ getReservedQuantity(m) <= currentStock[m]
      /\ currentStock[m] >= 0

====
